---- MODULE Spec2Model ----
(***************************************************************************)
(* A model of pysuerga.py, the static-site builder: get_context and its    *)
(* four preprocessors, the source walker, and main's render-or-copy loop   *)
(* over a source tree and an output tree.                                  *)
(*                                                                         *)
(* Path strings are sequences of one-character strings, so that the        *)
(* os.path functions are computed character by character as the library    *)
(* computes them.  The file system resolves a path string to a tuple of    *)
(* components (Resolve); the output tree is keyed by resolved paths.       *)
(***************************************************************************)
EXTENDS Integers, Sequences, FiniteSets, TLC

VARIABLES
    pc,          \* position of the program
    entry_point, \* the function the run entered: "main" or "get_context"
    preprocessors,\* the preprocessors list passed to get_context
    idx,         \* number of preprocessors get_context has completed
    context,     \* the context mapping, or None
    invoked,     \* names of the preprocessors invoked so far, in order
    requests,    \* external lookups issued so far, in order
    error,       \* the exception that ended the run, or None
    result,      \* what get_context returned, or None
    source,      \* the source tree: SourceFile records
    config,      \* parsed content of pysuerga.yml
    feeds,       \* what feedparser.parse gives for each feed url
    listing,     \* the release listing the API holds
    target,      \* the output tree: resolved path -> content
    target_dirs, \* directories of the output tree (resolved paths)
    locked,      \* resolved paths of the output tree that cannot be removed
    yielded,     \* source files get_source_files has yielded so far
    written      \* output files written by this run, in order

vars == <<pc, entry_point, preprocessors, idx, context, invoked, requests, error, result, source, config, feeds, listing, target, target_dirs,
          locked, yielded, written>>

None == [none |-> TRUE]

(***************************************************************************)
(* Character strings                                                       *)
(***************************************************************************)
SEP == "/"
DOT == "."

\* str.rfind(ch): the last index of ch in s, 0 when absent (Python: -1).
RFind(s, ch) ==
    LET hits == {i \in 1..Len(s) : s[i] = ch}
    IN  IF hits = {} THEN 0 ELSE CHOOSE i \in hits : \A j \in hits : j <= i

\* s[a:b] with 1-based inclusive bounds.
Slice(s, a, b) == IF a > b THEN <<>> ELSE SubSeq(s, a, b)

\* str.split('/'): the components between separators, empty ones included.
RECURSIVE SplitSep(_)
SplitSep(s) ==
    LET hits == {i \in 1..Len(s) : s[i] = SEP}
    IN  IF hits = {} THEN <<s>>
        ELSE LET i == CHOOSE k \in hits : \A j \in hits : k <= j
             IN  <<Slice(s, 1, i - 1)>> \o SplitSep(Slice(s, i + 1, Len(s)))

\* '/'.join(parts)
RECURSIVE JoinSep(_)
JoinSep(parts) ==
    IF parts = <<>> THEN <<>>
    ELSE IF Len(parts) = 1 THEN parts[1]
    ELSE parts[1] \o <<SEP>> \o JoinSep(Tail(parts))

(***************************************************************************)
(* os.path (posixpath)                                                     *)
(***************************************************************************)
\* os.path.join(a, b)
Join(a, b) ==
    IF b # <<>> /\ b[1] = SEP THEN b
    ELSE IF a = <<>> \/ a[Len(a)] = SEP THEN a \o b
    ELSE a \o <<SEP>> \o b

\* str.rstrip('/')
RECURSIVE RStripSep(_)
RStripSep(s) ==
    IF s # <<>> /\ s[Len(s)] = SEP THEN RStripSep(Slice(s, 1, Len(s) - 1)) ELSE s

\* os.path.dirname(p)
Dirname(p) ==
    LET head == Slice(p, 1, RFind(p, SEP))
    IN  IF head # <<>> /\ (\E i \in 1..Len(head) : head[i] # SEP)
        THEN RStripSep(head) ELSE head

\* os.path.basename(p)
Basename(p) == Slice(p, RFind(p, SEP) + 1, Len(p))

\* os.path.splitext(p): <<root, ext>>.  The extension starts at the last dot
\* of the last component, unless only dots precede it in that component.
Splitext(p) ==
    LET sepIndex == RFind(p, SEP)
        dotIndex == RFind(p, DOT)
    IN  IF dotIndex > sepIndex
           /\ \E k \in (sepIndex + 1)..(dotIndex - 1) : p[k] # DOT
        THEN <<Slice(p, 1, dotIndex - 1), Slice(p, dotIndex, Len(p))>>
        ELSE <<p, <<>>>>

\* The component list of os.path.normpath: empty and "." components dropped,
\* ".." taking back the component before it.
RECURSIVE NormComps(_, _)
NormComps(parts, acc) ==
    IF parts = <<>> THEN acc
    ELSE LET c == Head(parts)
         IN  IF c = <<>> \/ c = <<DOT>> THEN NormComps(Tail(parts), acc)
             ELSE IF c = <<DOT, DOT>>
             THEN NormComps(Tail(parts),
                            IF acc = <<>> THEN acc ELSE Slice(acc, 1, Len(acc) - 1))
             ELSE NormComps(Tail(parts), Append(acc, c))

\* The components of os.path.abspath(p); the working directory is the root.
AbsComps(p) == NormComps(SplitSep(p), <<>>)

\* Length of the common prefix of two component lists.
CommonLen(a, b) ==
    LET same == {n \in 0..Len(a) : n <= Len(b) /\ \A k \in 1..n : a[k] = b[k]}
    IN  CHOOSE n \in same : \A m \in same : m <= n

\* os.path.relpath(path, start)
Relpath(path, start) ==
    LET start_list == AbsComps(start)
        path_list  == AbsComps(path)
        i          == CommonLen(start_list, path_list)
        rel_list   == [k \in 1..(Len(start_list) - i) |-> <<DOT, DOT>>]
                      \o Slice(path_list, i + 1, Len(path_list))
    IN  IF rel_list = <<>> THEN <<DOT>> ELSE JoinSep(rel_list)

\* How the file system resolves a path string: its components.
Resolve(p) == AbsComps(p)

\* The proper ancestors of a resolved path below (and including) base.
DirsDownTo(base, path) ==
    {Slice(path, 1, n) : n \in Len(base)..Len(path)}

(***************************************************************************)
(* Bounds of the model                                                     *)
(***************************************************************************)
MaxFiles    == 3   \* files in the source tree
MaxPre      == 3   \* preprocessors passed to get_context directly
MaxUsers    == 3   \* usernames in maintainers.active
MaxReleases == 2   \* entries of the release listing
MaxEntries  == 2   \* entries of one feed
MaxTime     == 2   \* latest publication time of a feed entry
MaxPosts    == 3   \* largest blog.num_posts
UtcOffset   == 1   \* offset of local time from UTC

(***************************************************************************)
(* Preprocessors.navbar_add_info                                           *)
(***************************************************************************)
\* str.lower() on one character.
LowerChar(c) ==
    CASE c = "A" -> "a"
      [] c = "U" -> "u"
      [] OTHER   -> c

\* item['name'].replace(' ', '-').lower()
Slug(name) ==
    LET replaced == [i \in 1..Len(name) |-> IF name[i] = " " THEN "-" ELSE name[i]]
    IN  [i \in 1..Len(replaced) |-> LowerChar(replaced[i])]

\* dict(item, has_subitems=isinstance(item['target'], list), slug=...)
NavbarItem(item) ==
    ("has_subitems" :> (item.target.type = "list")) @@ ("slug" :> Slug(item.name))
    @@ item

NavbarAddInfo(ctx) ==
    [ctx EXCEPT !.navbar = [i \in 1..Len(@) |-> NavbarItem(@[i])]]

(***************************************************************************)
(* Preprocessors.blog_add_posts                                            *)
(***************************************************************************)
\* time.mktime: a struct_time read as local time, to seconds since the epoch.
Mktime(t) == t - UtcOffset
\* datetime.fromtimestamp: seconds since the epoch to local time.
FromTimestamp(ts) == ts + UtcOffset

\* The post built from one entry of one feed.
Post(entry, feed_data) ==
    [title     |-> entry.title,
     published |-> FromTimestamp(Mktime(entry.published_parsed)),
     feed      |-> feed_data.title]

\* The posts list after the two nested loops: feeds in configured order,
\* entries in feed order.
RECURSIVE CollectPosts(_, _)
CollectPosts(urls, fd) ==
    IF urls = <<>> THEN <<>>
    ELSE LET feed_data == fd[Head(urls)]
         IN  [i \in 1..Len(feed_data.entries) |-> Post(feed_data.entries[i], feed_data)]
             \o CollectPosts(Tail(urls), fd)

\* Faulty variant of InsertDesc: the sort without reverse=True.
RECURSIVE InsertAsc(_, _)
InsertAsc(x, sorted) ==
    IF sorted = <<>> THEN <<x>>
    ELSE IF Head(sorted).published <= x.published
         THEN <<Head(sorted)>> \o InsertAsc(x, Tail(sorted))
         ELSE <<x>> \o sorted

\* list.sort(key=itemgetter('published'), reverse=True): stable, equal keys
\* keep their original order.
RECURSIVE InsertDesc(_, _)
InsertDesc(x, sorted) ==
    IF sorted = <<>> THEN <<x>>
    ELSE IF Head(sorted).published >= x.published
         THEN <<Head(sorted)>> \o InsertDesc(x, Tail(sorted))
         ELSE <<x>> \o sorted

RECURSIVE SortDesc(_)
SortDesc(posts) ==
    IF posts = <<>> THEN <<>>
    ELSE InsertDesc(posts[Len(posts)], SortDesc(Slice(posts, 1, Len(posts) - 1)))

\* s[:n] of a Python list.
SliceTo(s, n) ==
    IF n >= 0 THEN Slice(s, 1, IF n < Len(s) THEN n ELSE Len(s))
    ELSE Slice(s, 1, Len(s) + n)

BlogAddPosts(ctx, fd) ==
    LET posts == SortDesc(CollectPosts(ctx.blog.feed, fd))
    IN  [ctx EXCEPT !.blog = ("posts" :> SliceTo(posts, ctx.blog.num_posts)) @@ @]

(***************************************************************************)
(* The external lookups                                                    *)
(***************************************************************************)
Statuses == {200, 403, 404, 500}

\* Faulty variant of RaisesForStatus: the status is never checked.
RaisesNever(status) == FALSE

\* requests.Response.raise_for_status raises HTTPError for 4xx and 5xx.
RaisesForStatus(status) == status >= 400 /\ status < 600

\* resp.json() of a user lookup.
Profile(user) == [login |-> user]

HTTPError == [type |-> "HTTPError", msg |-> <<>>]

(***************************************************************************)
(* Preprocessors.maintainers_add_info                                      *)
(* resp[i] is the status the i-th lookup would get.  The value is          *)
(* [ctx, requests, raised]: the context as left, the lookups issued, and   *)
(* whether raise_for_status raised.                                        *)
(***************************************************************************)
RECURSIVE MaintainersLoop(_, _, _, _)
MaintainersLoop(ctx, i, resp, reqs) ==
    LET active == ctx.maintainers.active
    IN  IF i > Len(active) THEN [ctx |-> ctx, requests |-> reqs, raised |-> FALSE]
        ELSE LET user  == active[i]
                 sent  == Append(reqs, [api |-> "users", arg |-> user, status |-> resp[i]])
             IN  IF resp[i] = 403
                 THEN [ctx |-> ctx, requests |-> sent, raised |-> FALSE]
                 ELSE IF RaisesForStatus(resp[i])
                 THEN [ctx |-> ctx, requests |-> sent, raised |-> TRUE]
                 ELSE MaintainersLoop(
                        [ctx EXCEPT !.maintainers.people = Append(@, Profile(user))],
                        i + 1, resp, sent)

\* Faulty variant of MaintainersAddInfo: a 403 skips the username and the
\* loop goes on with the next one.
RECURSIVE MaintainersLoopContinue(_, _, _, _)
MaintainersLoopContinue(ctx, i, resp, reqs) ==
    LET active == ctx.maintainers.active
    IN  IF i > Len(active) THEN [ctx |-> ctx, requests |-> reqs, raised |-> FALSE]
        ELSE LET user  == active[i]
                 sent  == Append(reqs, [api |-> "users", arg |-> user, status |-> resp[i]])
             IN  IF resp[i] = 403
                 THEN MaintainersLoopContinue(ctx, i + 1, resp, sent)
                 ELSE IF RaisesForStatus(resp[i])
                 THEN [ctx |-> ctx, requests |-> sent, raised |-> TRUE]
                 ELSE MaintainersLoopContinue(
                        [ctx EXCEPT !.maintainers.people = Append(@, Profile(user))],
                        i + 1, resp, sent)

MaintainersAddInfoContinue(ctx, resp) ==
    MaintainersLoopContinue(
        [ctx EXCEPT !.maintainers = ("people" :> <<>>) @@ @], 1, resp, <<>>)

MaintainersAddInfo(ctx, resp) ==
    MaintainersLoop(
        [ctx EXCEPT !.maintainers = ("people" :> <<>>) @@ @], 1, resp, <<>>)

(***************************************************************************)
(* Preprocessors.home_add_releases                                         *)
(***************************************************************************)
\* str.lstrip('v'): every leading 'v' is removed.
RECURSIVE LStripV(_)
LStripV(s) == IF s # <<>> /\ s[1] = "v" THEN LStripV(Tail(s)) ELSE s

\* datetime.strptime(release['published_at'], '%Y-%m-%dT%H:%M:%SZ')
Strptime(published_at) == [datetime |-> published_at]

Release(release) ==
    [name      |-> LStripV(release.tag_name),
     tag       |-> release.tag_name,
     published |-> Strptime(release.published_at),
     url       |-> IF release.assets # <<>> THEN release.assets[1] ELSE <<>>]

RECURSIVE ReleasesLoop(_)
ReleasesLoop(rels) ==
    IF rels = <<>> THEN <<>>
    ELSE IF Head(rels).prerelease THEN ReleasesLoop(Tail(rels))
    ELSE <<Release(Head(rels))>> \o ReleasesLoop(Tail(rels))

HomeAddReleases(ctx, status, rels) ==
    LET ctx0 == ("releases" :> <<>>) @@ ctx
        sent == <<[api |-> "releases", arg |-> <<>>, status |-> status]>>
    IN  IF status = 403 THEN [ctx |-> ctx0, requests |-> sent, raised |-> FALSE]
        ELSE IF RaisesForStatus(status)
        THEN [ctx |-> ctx0, requests |-> sent, raised |-> TRUE]
        ELSE [ctx |-> [ctx0 EXCEPT !.releases = ReleasesLoop(rels)],
              requests |-> sent, raised |-> FALSE]

(***************************************************************************)
(* get_context                                                             *)
(***************************************************************************)
ConfigName == <<"p","y","s","u","e","r","g","a",".","y","m","l">>

\* The command line: source_path, --target-path, --base-url.
source_path == <<"w">>
target_path == <<"b">>
base_url    == <<>>

\* The root string os.walk gives for the directory with components dir.
RECURSIVE WalkRoot(_, _)
WalkRoot(top, dir) ==
    IF dir = <<>> THEN top ELSE WalkRoot(Join(top, Head(dir)), Tail(dir))

\* The path string of a source file, and the file a path string opens.
FilePath(f) == Join(WalkRoot(source_path, f.dir), f.name)
Exists(path, files) == \E f \in files : Resolve(FilePath(f)) = Resolve(path)
FileAt(path, files) == CHOOSE f \in files : Resolve(FilePath(f)) = Resolve(path)

\* f.read() of a source file: its bytes.
Bytes(f) == [bytes |-> <<f.dir, f.name>>]

\* yaml.safe_load of the config file, then context.update(kwargs).
LoadContext(cfg) == ("base_url" :> base_url) @@ cfg

\* Faulty variant of MainPreprocessors: the two lookups swapped.
MainPreprocessorsSwapped ==
    <<"navbar_add_info", "blog_add_posts", "home_add_releases",
      "maintainers_add_info">>

\* The preprocessors list main passes.
MainPreprocessors ==
    <<"navbar_add_info", "blog_add_posts", "maintainers_add_info",
      "home_add_releases">>

\* preprocessor(context) for a callable that touches no external service:
\* navbar_add_info, and two callables a caller of get_context may pass, one
\* with no return statement and one returning a new mapping.
Apply(name, ctx) ==
    CASE name = "navbar_add_info" -> NavbarAddInfo(ctx)
      [] name = "no_return"       -> None
      [] name = "stamp"           ->
            ("stamp" :> (IF "stamp" \in DOMAIN ctx THEN ctx.stamp + 1 ELSE 1)) @@ ctx

\* Faulty variant of AssertionError: the message does not name the
\* preprocessor.
AssertionErrorUnnamed(name) ==
    [type |-> "AssertionError",
     msg |-> <<"preprocessor", " is missing the return statement">>]

\* msg = f'{preprocessor.__name__} is missing the return statement'
AssertionError(name) ==
    [type |-> "AssertionError", msg |-> <<name, " is missing the return statement">>]

\* with open(config_fname) as f: context = yaml.safe_load(f); update(kwargs)
LoadConfig ==
    /\ pc = "load"
    /\ IF Exists(Join(source_path, ConfigName), source)
       THEN /\ context' = LoadContext(config)
            /\ pc' = "preprocess"
            /\ error' = error
       ELSE /\ error' = [type |-> "FileNotFoundError", msg |-> <<>>]
            /\ pc' = "aborted"
            /\ context' = context
    /\ idx' = 0
    /\ UNCHANGED <<entry_point, preprocessors, invoked, requests, result,
                   source, config, feeds, listing, target, target_dirs, locked,
                   yielded, written>>

\* One turn of the loop: context = preprocessor(context); assert context is
\* not None, msg.  ret is what the call returned.
Returned(name, ret) ==
    /\ invoked' = Append(invoked, [name |-> name, ret |-> ret])
    /\ context' = ret
    /\ IF ret = None
       THEN /\ error' = AssertionError(name)
            /\ pc' = "aborted"
            /\ idx' = idx
       ELSE /\ error' = error
            /\ pc' = pc
            /\ idx' = idx + 1

\* One turn of the loop whose call raised: the exception leaves get_context.
Raised(name, ctx, exc) ==
    /\ invoked' = Append(invoked, [name |-> name, ret |-> None])
    /\ context' = ctx
    /\ error' = exc
    /\ pc' = "aborted"
    /\ idx' = idx

Next_preprocessor == preprocessors[idx + 1]

CallLocal ==
    /\ pc = "preprocess"
    /\ idx < Len(preprocessors)
    /\ Next_preprocessor \in {"navbar_add_info", "no_return", "stamp"}
    /\ Returned(Next_preprocessor, Apply(Next_preprocessor, context))
    /\ UNCHANGED <<entry_point, preprocessors, requests, result, source,
                   config, feeds, listing, target, target_dirs, locked, yielded,
                   written>>

CallBlog ==
    /\ pc = "preprocess"
    /\ idx < Len(preprocessors)
    /\ Next_preprocessor = "blog_add_posts"
    /\ Returned("blog_add_posts", BlogAddPosts(context, feeds))
    /\ UNCHANGED <<entry_point, preprocessors, requests, result, source,
                   config, feeds, listing, target, target_dirs, locked, yielded,
                   written>>

CallMaintainers ==
    /\ pc = "preprocess"
    /\ idx < Len(preprocessors)
    /\ Next_preprocessor = "maintainers_add_info"
    /\ \E resp \in [1..Len(context.maintainers.active) -> Statuses] :
          LET r == MaintainersAddInfo(context, resp)
          IN  /\ requests' = requests \o r.requests
              /\ IF r.raised
                 THEN Raised("maintainers_add_info", r.ctx, HTTPError)
                 ELSE Returned("maintainers_add_info", r.ctx)
    /\ UNCHANGED <<entry_point, preprocessors, result, source, config, feeds,
                   listing, target, target_dirs, locked, yielded, written>>

CallReleases ==
    /\ pc = "preprocess"
    /\ idx < Len(preprocessors)
    /\ Next_preprocessor = "home_add_releases"
    /\ \E status \in Statuses :
          LET r == HomeAddReleases(context, status, listing)
          IN  /\ requests' = requests \o r.requests
              /\ IF r.raised
                 THEN Raised("home_add_releases", r.ctx, HTTPError)
                 ELSE Returned("home_add_releases", r.ctx)
    /\ UNCHANGED <<entry_point, preprocessors, result, source, config,
                   feeds, listing, target, target_dirs, locked, yielded, written>>

\* return context
GetContextReturn ==
    /\ pc = "preprocess"
    /\ idx = Len(preprocessors)
    /\ result' = context
    /\ pc' = IF entry_point = "main" THEN "walk" ELSE "returned"
    /\ UNCHANGED <<entry_point, preprocessors, idx, context, invoked, requests,
                   error, source, config, feeds, listing, target,
                   target_dirs, locked, yielded, written>>

(***************************************************************************)
(* The output tree                                                         *)
(***************************************************************************)
Stale == [stale |-> TRUE]

Paths(tgt) == {t.path : t \in tgt}

\* The tree with content written at path, replacing what was there.
WriteFile(tgt, path, content) ==
    {t \in tgt : t.path # path} \cup {[path |-> path, content |-> content]}

\* shutil.rmtree(target_path, ignore_errors=True): what cannot be removed
\* stays, and the error is swallowed.
Rmtree(tgt, fixed) == {t \in tgt : t.path \in fixed}

\* The directories that remain around the remaining files.
DirsOf(tgt) ==
    UNION {DirsDownTo(Resolve(target_path), Slice(t.path, 1, Len(t.path) - 1)) : t \in tgt}

\* os.makedirs(path, exist_ok=True): [ok, dirs].  It fails when a component
\* of the path is an existing file.
Makedirs(path, tgt, dirs) ==
    LET all == DirsDownTo(Resolve(target_path), Resolve(path))
    IN  IF all \cap Paths(tgt) # {}
        THEN [ok |-> FALSE, dirs |-> dirs]
        ELSE [ok |-> TRUE, dirs |-> dirs \cup all]

(***************************************************************************)
(* get_source_files                                                        *)
(***************************************************************************)
\* What the generator yields for a file: os.path.join(root, fname), with
\* root = os.path.relpath(root, source_path).
Yield(f) == Join(Relpath(WalkRoot(source_path, f.dir), source_path), f.name)

Under(d, f) == Len(f.dir) >= Len(d) /\ Slice(f.dir, 1, Len(d)) = d

SourceDirs(files) == UNION {{Slice(f.dir, 1, n) : n \in 1..Len(f.dir)} : f \in files}

\* os.walk is top-down: the files of a directory come before those of its
\* subdirectories, and a subdirectory is finished before its sibling starts.
\* The order inside one directory is the file system's.
CanYield(f, files, done) ==
    /\ f \in files \ done
    /\ \A g \in files \ done : ~(Len(g.dir) < Len(f.dir) /\ Under(g.dir, f))
    /\ \A d \in SourceDirs(files) :
          ~Under(d, f) =>
              ~(/\ \E g \in done : Under(d, g)
                /\ \E h \in files \ done : Under(d, h))

(***************************************************************************)
(* main: the body of the loop over the source files                        *)
(***************************************************************************)
ExtHtml == <<".", "h", "t", "m", "l">>
ExtMd   == <<".", "m", "d">>
LayoutHtml == <<"l","a","y","o","u","t",".","h","t","m","l">>

\* if fname in context['pysuerga']['ignore']
IsIgnored(fname, ctx) ==
    \E i \in 1..Len(ctx.pysuerga.ignore) : ctx.pysuerga.ignore[i] = fname

\* Faulty variant of IsMarkup: every file is taken for markup.
IsMarkupAll(extension) == TRUE

\* if extension in ('.html', '.md')
IsMarkup(extension) == extension \in {ExtHtml, ExtMd}

\* markdown.markdown(content, extensions=['toc', 'tables', 'fenced_code'])
Markdown(content) ==
    [markdown |-> content, extensions |-> <<"toc", "tables", "fenced_code">>]

\* Faulty variant of Template: the .md body is not placed in the layout.
TemplateNoLayout(extension, content) ==
    [extends |-> <<>>,
     body |-> IF extension = ExtMd THEN Markdown(content) ELSE content]

\* The template text handed to jinja: the file's own text, or for .md the
\* converted body inside {% extends "layout.html" %}{% block body %}.
Template(extension, content) ==
    IF extension = ExtMd
    THEN [extends |-> LayoutHtml, body |-> Markdown(content)]
    ELSE [extends |-> <<>>, body |-> content]

\* jinja_env.from_string(content).render(**context)
Render(template, ctx) == [template |-> template, context |-> ctx]

\* The output path of a rendered file.
RenderedName(fname) == Splitext(fname)[1] \o ExtHtml

\* shutil.copy(src, dst) with dst a directory: the file lands in
\* os.path.join(dst, os.path.basename(src)).
CopyDest(src, dst) == Join(dst, Basename(src))

\* One pass of the loop body for the yielded fname.  The value is
\* [error, target, dirs, wrote]: wrote holds the output written, if any.
ProcessOutcome(fname, ctx, files, tgt, dirs) ==
    LET skip == [error |-> None, target |-> tgt, dirs |-> dirs, wrote |-> <<>>]
        dirname == Dirname(fname)
        made == Makedirs(Join(target_path, dirname), tgt, dirs)
        extension == Splitext(fname)[2]
        src == Join(source_path, fname)
        out == IF IsMarkup(extension)
               THEN Join(target_path, RenderedName(fname))
               ELSE CopyDest(src, Join(target_path, dirname))
        content == IF IsMarkup(extension)
                   THEN Render(Template(extension, Bytes(FileAt(src, files))), ctx)
                   ELSE Bytes(FileAt(src, files))
    IN  IF IsIgnored(fname, ctx) THEN skip
        ELSE IF ~made.ok
        THEN [skip EXCEPT !.error = [type |-> "FileExistsError", msg |-> <<>>]]
        ELSE IF Resolve(out) \in made.dirs
        THEN [skip EXCEPT !.error = [type |-> "IsADirectoryError", msg |-> <<>>],
                          !.dirs = made.dirs]
        ELSE [error  |-> None,
              target |-> WriteFile(tgt, Resolve(out), content),
              dirs   |-> made.dirs,
              wrote  |-> <<[out |-> Resolve(out), content |-> content]>>]

\* shutil.rmtree(target_path, ignore_errors=True); os.makedirs(target_path)
Clean ==
    /\ pc = "start"
    /\ target' = Rmtree(target, locked)
    /\ target_dirs' = DirsOf(target') \cup {Resolve(target_path)}
    /\ pc' = "load"
    /\ UNCHANGED <<entry_point, preprocessors, idx, context, invoked, requests,
                   error, result, source, config, feeds, listing, locked,
                   yielded, written>>

\* for fname in get_source_files(source_path): ...
ProcessFile ==
    /\ pc = "walk"
    /\ \E f \in source :
          /\ CanYield(f, source, yielded)
          /\ yielded' = yielded \cup {f}
          /\ LET r == ProcessOutcome(Yield(f), context, source, target, target_dirs)
             IN  /\ target' = r.target
                 /\ target_dirs' = r.dirs
                 /\ error' = r.error
                 /\ pc' = IF r.error = None THEN "walk" ELSE "aborted"
                 /\ written' = written \o
                        [i \in 1..Len(r.wrote) |->
                            [src |-> f, out |-> r.wrote[i].out,
                             content |-> r.wrote[i].content]]
    /\ UNCHANGED <<entry_point, preprocessors, idx, context, invoked, requests,
                   result, source, config, feeds, listing, locked>>

\* The generator is exhausted: main returns.
Finish ==
    /\ pc = "walk"
    /\ yielded = source
    /\ pc' = "done"
    /\ UNCHANGED <<entry_point, preprocessors, idx, context, invoked, requests,
                   error, result, source, config, feeds, listing, target,
                   target_dirs, locked, yielded, written>>

(***************************************************************************)
(* Inputs                                                                  *)
(***************************************************************************)
DirSt    == <<"s", "t">>
DirHtml  == <<"a", ".", "h", "t", "m", "l">>
NameMd   == <<"a", ".", "m", "d">>
NameHtml == <<"a", ".", "h", "t", "m", "l">>
NameCss  == <<"a", ".", "c", "s", "s">>
NameDot  == <<".", "m", "d">>
NameB    == <<"b", ".", "c", "s", "s">>

ConfigFile == [dir |-> <<>>, name |-> ConfigName]

\* The files a source tree is drawn from: markup and other files in the
\* root and in a subdirectory, a file whose whole name is ".md", and a
\* directory named like a rendered output.
UniverseFiles ==
    {ConfigFile,
     [dir |-> <<>>, name |-> NameMd],
     [dir |-> <<>>, name |-> NameHtml],
     [dir |-> <<>>, name |-> NameCss],
     [dir |-> <<>>, name |-> NameDot],
     [dir |-> <<DirSt>>, name |-> NameCss],
     [dir |-> <<DirSt>>, name |-> NameMd],
     [dir |-> <<DirHtml>>, name |-> NameB]}

Trees == {t \in SUBSET UniverseFiles : Cardinality(t) <= MaxFiles}

\* pysuerga.ignore as written in the config: paths relative to the source.
IgnoreChoices ==
    {<<>>,
     <<ConfigName>>,
     <<JoinSep(<<DirSt, NameCss>>)>>,
     <<ConfigName, JoinSep(<<DirSt, NameCss>>)>>}

\* What the output directory holds before the run, and which of it sits in
\* a directory the run may not modify.
OldHtml == <<target_path, NameHtml>>
OldDeep == <<target_path, <<"o", "l", "d">>, <<"x">>>>
PriorChoices ==
    {[files |-> fs, fixed |-> lk] :
        fs \in SUBSET {OldHtml, OldDeep}, lk \in SUBSET {OldDeep}}

Users == {"u1", "u2"}
FeedUrls == {"f1", "f2"}

Navbar ==
    <<[name |-> <<"A", "b", " ", "U">>, target |-> [type |-> "str"]],
      [name |-> <<"a", " ", " ", "b">>, target |-> [type |-> "list"]]>>

Config(ignore, feed, num_posts, active) ==
    [pysuerga    |-> [templates_path |-> <<"_", "t">>, ignore |-> ignore],
     navbar      |-> Navbar,
     blog        |-> [feed |-> feed, num_posts |-> num_posts],
     maintainers |-> [active |-> active]]

SeqsUpTo(S, n) == UNION {[1..k -> S] : k \in 0..n}

\* The entries a feed may hold: up to MaxEntries, each with a time.
EntryLists(url) ==
    {[i \in 1..Len(ts) |-> [title |-> <<url, i>>, published_parsed |-> ts[i]]] :
        ts \in SeqsUpTo(1..MaxTime, MaxEntries)}

FeedData ==
    {[u \in FeedUrls |-> [title |-> u, entries |-> e[u]]] :
        e \in {g \in [FeedUrls -> UNION {EntryLists(u) : u \in FeedUrls}] :
                  \A u \in FeedUrls : g[u] \in EntryLists(u)}}

\* blog.feed as configured: no feed, one, two in either order, one twice.
FeedLists ==
    {<<>>, <<"f1">>, <<"f1", "f2">>, <<"f2", "f1">>, <<"f1", "f1">>}

FixedFeeds ==
    [u \in FeedUrls |->
        [title |-> u,
         entries |-> <<[title |-> <<u, 1>>, published_parsed |-> 1],
                       [title |-> <<u, 2>>, published_parsed |-> 2]>>]]

Tags == {<<"v", "1">>, <<"v", "v", "1">>, <<"1", "v">>}

ReleaseEntries ==
    [tag_name : Tags, prerelease : BOOLEAN, published_at : {1},
     assets : {<<>>, <<"url1", "url2">>}]

FixedListing ==
    <<[tag_name |-> <<"v", "1">>, prerelease |-> FALSE, published_at |-> 1,
       assets |-> <<>>],
      [tag_name |-> <<"v", "2">>, prerelease |-> TRUE, published_at |-> 1,
       assets |-> <<"url1">>]>>

(***************************************************************************)
(* Specifications                                                          *)
(***************************************************************************)
InitRun(ep, start, pre, src, cfg, fd, rels, prior) ==
    /\ pc = start
    /\ entry_point = ep
    /\ preprocessors = pre
    /\ idx = 0
    /\ context = None
    /\ invoked = <<>>
    /\ requests = <<>>
    /\ error = None
    /\ result = None
    /\ source = src
    /\ config = cfg
    /\ feeds = fd
    /\ listing = rels
    /\ target = {[path |-> p, content |-> Stale] : p \in prior.files}
    /\ target_dirs = DirsOf(target)
    /\ locked = prior.fixed \cap prior.files
    /\ yielded = {}
    /\ written = <<>>

NoPrior == [files |-> {}, fixed |-> {}]

\* A run of main over any source tree, ignore list and prior output.
Init ==
    \E src \in Trees, ig \in IgnoreChoices, prior \in PriorChoices :
        InitRun("main", "start", MainPreprocessors, src,
                Config(ig, <<"f1">>, 1, <<"u1", "u2">>), FixedFeeds,
                FixedListing, prior)

Next ==
    \/ Clean
    \/ LoadConfig
    \/ CallLocal
    \/ CallBlog
    \/ CallMaintainers
    \/ CallReleases
    \/ GetContextReturn
    \/ ProcessFile
    \/ Finish

Spec == Init /\ [][Next]_vars

\* get_context called with any list of preprocessors.
InitCtx ==
    \E pre \in SeqsUpTo({"navbar_add_info", "no_return", "stamp"}, MaxPre) :
        InitRun("get_context", "load", pre, {ConfigFile},
                Config(<<>>, <<>>, 0, <<>>), FixedFeeds, <<>>, NoPrior)

NextCtx == LoadConfig \/ CallLocal \/ GetContextReturn

SpecCtx == InitCtx /\ [][NextCtx]_vars

\* get_context with blog_add_posts alone, over any feeds and num_posts.
InitBlog ==
    \E fd \in FeedData, n \in 0..MaxPosts,
       feed \in FeedLists :
        InitRun("get_context", "load", <<"blog_add_posts">>, {ConfigFile},
                Config(<<>>, feed, n, <<>>), fd, <<>>, NoPrior)

NextBlog == LoadConfig \/ CallBlog \/ GetContextReturn

SpecBlog == InitBlog /\ [][NextBlog]_vars

\* get_context with maintainers_add_info alone, over any active list.
InitMaint ==
    \E active \in SeqsUpTo(Users, MaxUsers) :
        InitRun("get_context", "load", <<"maintainers_add_info">>, {ConfigFile},
                Config(<<>>, <<>>, 0, active), FixedFeeds, <<>>, NoPrior)

NextMaint == LoadConfig \/ CallMaintainers \/ GetContextReturn

SpecMaint == InitMaint /\ [][NextMaint]_vars

\* get_context with home_add_releases alone, over any release listing.
InitRel ==
    \E rels \in SeqsUpTo(ReleaseEntries, MaxReleases) :
        InitRun("get_context", "load", <<"home_add_releases">>, {ConfigFile},
                Config(<<>>, <<>>, 0, <<>>), FixedFeeds, rels, NoPrior)

NextRel == LoadConfig \/ CallReleases \/ GetContextReturn

SpecRel == InitRel /\ [][NextRel]_vars

(***************************************************************************)
(* Claims                                                                  *)
(***************************************************************************)
\* The path of a source file relative to the source root, as a config
\* author writes it: its directories and its name joined by "/".
RelativePath(f) == JoinSep(f.dir \o <<f.name>>)

Listed(f) == \E i \in 1..Len(config.pysuerga.ignore) :
                config.pysuerga.ignore[i] = RelativePath(f)

\* Where the output tree mirrors a source file under the given name.
Mirror(f, name) == Resolve(target_path) \o f.dir \o <<name>>

WritesOf(f) == {i \in DOMAIN written : written[i].src = f}

\* C1: clean build.  Once main's first step is over, every file in the
\* output directory was written by this run: nothing from before the run
\* remains, whether the run completes or aborts later.
C1_CleanBuild ==
    pc # "start" =>
        \A t \in target :
            /\ t.content # Stale
            /\ \E i \in DOMAIN written :
                  written[i].out = t.path /\ written[i].content = t.content

\* C2: ignore set.  A file whose path relative to the source root is listed
\* in pysuerga.ignore is never rendered or copied and gets no output file,
\* wherever it sits in the tree; at the end of a completed run every file
\* that is not listed has been processed exactly once.
C2_IgnoreSet ==
    /\ \A i \in DOMAIN written : ~Listed(written[i].src)
    /\ pc = "done" =>
          \A f \in source : ~Listed(f) => Cardinality(WritesOf(f)) = 1

\* C3: output mapping per file.  Every file main has processed got exactly
\* one output file, in the same relative directory of the output tree:
\* base.html with the template-rendered content for .md and .html (for .md
\* the converted body inside the layout.html layout), and otherwise a file
\* of the same name with the bytes of the source file.  The file just
\* written is in the output tree as written.
C3_OutputMapping ==
    /\ \A i \in DOMAIN written :
          LET f    == written[i].src
              base == Splitext(f.name)[1]
              ext  == Splitext(f.name)[2]
          IN  IF ext \in {ExtMd, ExtHtml}
              THEN /\ written[i].out = Mirror(f, base \o ExtHtml)
                   /\ written[i].content =
                        [template |->
                            IF ext = ExtMd
                            THEN [extends |-> LayoutHtml,
                                  body |-> [markdown |-> Bytes(f),
                                            extensions |-> <<"toc", "tables",
                                                             "fenced_code">>]]
                            ELSE [extends |-> <<>>, body |-> Bytes(f)],
                         context |-> result]
              ELSE /\ written[i].out = Mirror(f, f.name)
                   /\ written[i].content = Bytes(f)
    /\ \A f \in source : Cardinality(WritesOf(f)) <= 1
    /\ \A f \in yielded :
          (error = None /\ ~IsIgnored(Yield(f), context))
              => Cardinality(WritesOf(f)) = 1
    /\ written # <<>> =>
          [path |-> written[Len(written)].out,
           content |-> written[Len(written)].content] \in target

\* A markdown file of a subdirectory has been rendered and another file of
\* that subdirectory copied.
C3_Witness ==
    /\ \E i \in DOMAIN written :
          written[i].src = [dir |-> <<DirSt>>, name |-> NameMd]
    /\ \E i \in DOMAIN written :
          written[i].src = [dir |-> <<DirSt>>, name |-> NameCss]
    /\ pc = "done"

\* C4: preprocessor ordering.  The preprocessors invoked so far are the
\* first ones of navbar shaping, blog aggregation, maintainer lookup,
\* release lookup, each once and in that order, each invoked after the one
\* before it returned; no source file is yielded, rendered or copied before
\* all four have returned.
C4_PreprocessorOrder ==
    LET order == <<"navbar_add_info", "blog_add_posts", "maintainers_add_info",
                   "home_add_releases">>
    IN  /\ Len(invoked) <= 4
        /\ \A i \in DOMAIN invoked : invoked[i].name = order[i]
        /\ \A i \in DOMAIN invoked : i < Len(invoked) => invoked[i].ret # None
        /\ (yielded # {} \/ written # <<>> \/ pc \in {"walk", "done"}) =>
              /\ Len(invoked) = 4
              /\ \A i \in DOMAIN invoked : invoked[i].ret # None

\* A completed run that wrote output after the four preprocessors.
C4_Witness == pc = "done" /\ written # <<>> /\ Len(invoked) = 4

\* C5: maintainer lookup truncation.  When the lookups of usernames
\* 1..K-1 succeeded and the K-th got a 403, maintainers_add_info returned
\* the context with maintainers.people holding the K-1 profiles of those
\* usernames in input order, and K lookups were issued, one for each of the
\* first K usernames.
C5_Truncation ==
    \A K \in DOMAIN requests :
        (/\ requests[K].status = 403
         /\ \A j \in 1..(K - 1) : requests[j].status = 200)
        => /\ error = None
           /\ invoked[1].ret = context
           /\ context.maintainers.people =
                [j \in 1..(K - 1) |-> [login |-> config.maintainers.active[j]]]
           /\ Len(requests) = K
           /\ \A j \in 1..K : requests[j].arg = config.maintainers.active[j]

\* The third of at least three usernames was rate-limited.
C5_Witness ==
    /\ Len(requests) = 3
    /\ requests[3].status = 403
    /\ Len(config.maintainers.active) >= 3
    /\ Len(context.maintainers.people) = 2

\* A tag with one leading "v" removed.
StripOneV(tag) == IF tag # <<>> /\ tag[1] = "v" THEN Tail(tag) ELSE tag

\* C6: release filtering.  For a listing the API returned, releases holds
\* exactly the entries that are no prerelease, in listing order, each with
\* the tag unmodified and as name the tag less one leading "v".
C6_ReleaseFilter ==
    (invoked # <<>> /\ requests[1].status = 200) =>
        LET keep == SelectSeq(listing, LAMBDA r : ~r.prerelease)
        IN  /\ Len(context.releases) = Len(keep)
            /\ \A i \in DOMAIN keep :
                  /\ context.releases[i].tag = keep[i].tag_name
                  /\ context.releases[i].name = StripOneV(keep[i].tag_name)

\* The entries of the configured feeds: <<k, i>> is the i-th entry of the
\* k-th configured feed.
MergedEntries ==
    UNION {{<<k, i>> : i \in DOMAIN feeds[config.blog.feed[k]].entries} :
           k \in DOMAIN config.blog.feed}

\* The post an entry of the merged feeds gives.
PostOf(e) ==
    LET fd == feeds[config.blog.feed[e[1]]]
    IN  [title     |-> fd.entries[e[2]].title,
         published |-> fd.entries[e[2]].published_parsed,
         feed      |-> fd.title]

Min(a, b) == IF a < b THEN a ELSE b

LookupOf(api) ==
    IF api = "users" THEN "maintainers_add_info" ELSE "home_add_releases"

\* C8: soft versus fatal service errors.  A 403 in a lookup does not abort
\* the run: the preprocessor returns and the next step of the run (the next
\* preprocessor, the return of get_context, the next source file) is the
\* one the run takes next.  Any other error status aborts the run in that lookup: no
\* further lookup, no later preprocessor, no source file rendered or copied.
C8_SoftFatal ==
    /\ \A k \in DOMAIN requests :
          requests[k].status = 403 =>
              /\ ~(k = Len(requests) /\ error # None /\ error.type = "HTTPError")
              /\ \E i \in DOMAIN invoked :
                    /\ invoked[i].name = LookupOf(requests[k].api)
                    /\ invoked[i].ret # None
    /\ (requests # <<>> /\ requests[Len(requests)].status = 403
        /\ pc = "preprocess") =>
          /\ idx = Len(invoked)
          /\ error = None
          /\ idx = 3 => Next_preprocessor = "home_add_releases"
          /\ idx = 4 => idx = Len(preprocessors)
    /\ (pc = "walk" /\ yielded # source) =>
          \E f \in source : CanYield(f, source, yielded)
    /\ \A k \in DOMAIN requests :
          requests[k].status \in {404, 500} =>
              /\ k = Len(requests)
              /\ pc = "aborted"
              /\ error # None /\ error.type = "HTTPError"
              /\ invoked[Len(invoked)].name = LookupOf(requests[k].api)
              /\ yielded = {} /\ written = <<>>

\* A run that completed and wrote output although both lookups met a 403.
C8_Witness ==
    /\ pc = "done"
    /\ written # <<>>
    /\ Len(requests) = 2
    /\ requests[1].status = 403 /\ requests[2].status = 403

\* C9: preprocessor contract check.  The preprocessors are invoked in list
\* order.  If the i-th returns None, get_context aborts with an assertion
\* failure whose message names it, none after it is invoked and nothing is
\* returned; if all return a context, get_context returns the context the
\* last one returned.
C9_ContractCheck ==
    /\ Len(invoked) <= Len(preprocessors)
    /\ \A i \in DOMAIN invoked : invoked[i].name = preprocessors[i]
    /\ \A i \in DOMAIN invoked :
          invoked[i].ret = None =>
              /\ i = Len(invoked)
              /\ pc = "aborted"
              /\ error # None /\ error.type = "AssertionError"
              /\ error.msg[1] = preprocessors[i]
              /\ result = None
    /\ pc = "returned" =>
          /\ Len(invoked) = Len(preprocessors)
          /\ \A i \in DOMAIN invoked : invoked[i].ret # None
          /\ invoked # <<>> => result = invoked[Len(invoked)].ret

\* The second of three preprocessors returned None and the third never ran.
C9_Witness ==
    /\ pc = "aborted"
    /\ Len(preprocessors) = 3
    /\ Len(invoked) = 2
    /\ invoked[2].ret = None
    /\ preprocessors[3] = "stamp"

\* Two source files of one directory that are base.md and base.html.
MarkupTwins(f, g) ==
    /\ f.dir = g.dir
    /\ Splitext(f.name)[1] = Splitext(g.name)[1]
    /\ {Splitext(f.name)[2], Splitext(g.name)[2]} = {ExtMd, ExtHtml}

HasTwin(f) == \E g \in source : MarkupTwins(f, g)

\* C10 as claimed: two distinct source files never write to the same
\* output path, and at the end of a completed run every file that was
\* processed still has its own output.
C10_NoCollisions ==
    /\ \A i, j \in DOMAIN written :
          written[i].src # written[j].src => written[i].out # written[j].out
    /\ pc = "done" =>
          \A i \in DOMAIN written :
              [path |-> written[i].out, content |-> written[i].content] \in target

\* C10 as amended: two distinct source files write to the same output path
\* only when they are base.md and base.html of one directory; at the end of
\* a completed run every processed file that has no such twin still has its
\* own output, and of two twins the one processed last has.
C10_CollisionsOnlyTwins ==
    /\ \A i, j \in DOMAIN written :
          (written[i].src # written[j].src /\ written[i].out = written[j].out)
              => MarkupTwins(written[i].src, written[j].src)
    /\ pc = "done" =>
          \A i \in DOMAIN written :
              (~HasTwin(written[i].src)
               \/ \A j \in DOMAIN written :
                     written[j].out = written[i].out => j <= i)
              => [path |-> written[i].out, content |-> written[i].content]
                    \in target

\* A completed run in which a.md and a.html both wrote a.html.
C10_Witness ==
    /\ pc = "done"
    /\ \E i, j \in DOMAIN written :
          /\ i < j
          /\ written[i].out = written[j].out
    /\ \E i \in DOMAIN written :
          ~HasTwin(written[i].src)

====
